---- MODULE Spec2Model ----
(***************************************************************************)
(* A model of the ai-git-auto command line tool and of the gitcommenter    *)
(* library it drives.                                                      *)
(*                                                                         *)
(* Text that the code inspects character by character (status output,     *)
(* diffs, paths, user answers, model replies) is a sequence of one-       *)
(* character strings, one per byte: a byte that is not ASCII is written   *)
(* as Go quotes it (\xc3).  Text that the code only assembles (the        *)
(* prompt) is a TLA+ string built with \o, numbers formatted with         *)
(* ToString as %d does.                                                    *)
(***************************************************************************)
EXTENDS Integers, Sequences, FiniteSets, TLC

(***************************************************************************)
(* Go's strings package, on sequences of characters.                       *)
(***************************************************************************)

\* string(chars): the Go string holding the characters of s, put together
\* half by half.
RECURSIVE Str(_)
Str(s) ==
    IF s = <<>> THEN ""
    ELSE IF Len(s) = 1 THEN s[1]
    ELSE Str(SubSeq(s, 1, Len(s) \div 2))
         \o Str(SubSeq(s, Len(s) \div 2 + 1, Len(s)))

\* The characters of a string.
Chars(s) == [i \in 1..Len(s) |-> SubSeq(s, i, i)]

\* unicode.IsSpace, for the characters that occur.
IsSpace(c) == c \in {" ", "\t", "\n", "\r"}

\* strings.TrimLeft(s, whitespace)
RECURSIVE TrimLeft(_)
TrimLeft(s) ==
    IF s # <<>> /\ IsSpace(Head(s)) THEN TrimLeft(Tail(s)) ELSE s

\* strings.TrimRight(s, whitespace)
RECURSIVE TrimRight(_)
TrimRight(s) ==
    IF s # <<>> /\ IsSpace(s[Len(s)])
    THEN TrimRight(SubSeq(s, 1, Len(s) - 1))
    ELSE s

\* strings.TrimSpace
TrimSpace(s) == TrimRight(TrimLeft(s))

\* unicode.ToLower, for the letters that occur in answers.
LowerChar(c) ==
    CASE c = "Y" -> "y"
      [] c = "E" -> "e"
      [] c = "S" -> "s"
      [] c = "N" -> "n"
      [] c = "O" -> "o"
      [] OTHER   -> c

\* strings.ToLower
ToLower(s) == [i \in 1..Len(s) |-> LowerChar(s[i])]

\* strings.Split(s, "\n"): always at least one element, the empty text for "".
RECURSIVE SplitLines(_)
SplitLines(s) ==
    IF \A i \in 1..Len(s) : s[i] # "\n"
    THEN <<s>>
    ELSE LET k == CHOOSE i \in 1..Len(s) :
                      s[i] = "\n" /\ \A j \in 1..(i - 1) : s[j] # "\n"
         IN  <<SubSeq(s, 1, k - 1)>> \o SplitLines(SubSeq(s, k + 1, Len(s)))

\* strings.Fields: the maximal runs of non-space characters.
RECURSIVE Fields(_)
Fields(s) ==
    LET t == TrimLeft(s)
    IN  IF t = <<>>
        THEN <<>>
        ELSE LET n == IF \E i \in 1..Len(t) : IsSpace(t[i])
                      THEN (CHOOSE i \in 1..Len(t) :
                                IsSpace(t[i]) /\ \A j \in 1..(i - 1) : ~IsSpace(t[j])) - 1
                      ELSE Len(t)
             IN  <<SubSeq(t, 1, n)>> \o Fields(SubSeq(t, n + 1, Len(t)))

\* strings.Join(lines, "\n")
RECURSIVE JoinLines(_)
JoinLines(ls) ==
    IF ls = <<>> THEN <<>>
    ELSE IF Len(ls) = 1 THEN ls[1]
    ELSE ls[1] \o <<"\n">> \o JoinLines(Tail(ls))

\* strings.HasPrefix
HasPrefix(s, p) == Len(s) >= Len(p) /\ SubSeq(s, 1, Len(p)) = p

\* strings.LastIndex(s, "."), 1-based; 0 stands for Go's -1.
LastIndexDot(s) ==
    IF \E i \in 1..Len(s) : s[i] = "."
    THEN CHOOSE i \in 1..Len(s) : s[i] = "." /\ \A j \in (i + 1)..Len(s) : s[j] # "."
    ELSE 0

\* strings.Contains(s, sub)
Contains(s, sub) ==
    \E i \in 1..(Len(s) - Len(sub) + 1) : SubSeq(s, i, i + Len(sub) - 1) = sub

(***************************************************************************)
(* The gitcommenter library (src/gitcommenter.go).                         *)
(***************************************************************************)

DefaultEndpoint == "http://localhost:11434"
DefaultModel == "llama2"

\* The default client timeout, in seconds.
DefaultTimeout == 30

\* DefaultConfig()
DefaultConfig ==
    [OllamaEndpoint |-> DefaultEndpoint, Model |-> DefaultModel,
     Timeout |-> DefaultTimeout]

\* Mutant: parseChangeType without the case for copies.
parseChangeTypeNoCopied(status) ==
    CASE status[1] = "A" -> "added"
      [] status[1] = "M" -> "modified"
      [] status[1] = "D" -> "deleted"
      [] status[1] = "R" -> "renamed"
      [] OTHER           -> "modified"

\* parseChangeType: a switch on the first character of the status code.
parseChangeType(status) ==
    CASE status[1] = "A" -> "added"
      [] status[1] = "M" -> "modified"
      [] status[1] = "D" -> "deleted"
      [] status[1] = "R" -> "renamed"
      [] status[1] = "C" -> "copied"
      [] OTHER           -> "modified"

\* The loop of countDiffLines over the lines of a diff.
RECURSIVE CountLines(_)
CountLines(lines) ==
    IF lines = <<>>
    THEN [added |-> 0, removed |-> 0]
    ELSE LET line == Head(lines)
             rest == CountLines(Tail(lines))
         IN  IF HasPrefix(line, <<"+">>) /\ ~HasPrefix(line, <<"+", "+", "+">>)
             THEN [rest EXCEPT !.added = @ + 1]
             ELSE IF HasPrefix(line, <<"-">>) /\ ~HasPrefix(line, <<"-", "-", "-">>)
             THEN [rest EXCEPT !.removed = @ + 1]
             ELSE rest

\* Mutant: countDiffLines that also counts the file header lines.
countDiffLinesWithHeaders(diff) ==
    LET lines == SplitLines(diff)
    IN  [added |-> Cardinality({i \in 1..Len(lines) :
                                   HasPrefix(lines[i], <<"+">>)}),
         removed |-> Cardinality({i \in 1..Len(lines) :
                                     HasPrefix(lines[i], <<"-">>)})]

\* countDiffLines
countDiffLines(diff) == CountLines(SplitLines(diff))

\* getFileDiff, given the outcome of "git diff --cached -- filepath":
\* failed, or its output.
getFileDiff(failed, output) ==
    IF failed
    THEN [err |-> TRUE, diff |-> <<>>, added |-> 0, removed |-> 0]
    ELSE [err |-> FALSE, diff |-> output,
          added |-> countDiffLines(output).added,
          removed |-> countDiffLines(output).removed]

\* The staged diff of a path in the index (a sequence of entries
\* [code, path, diff]); git prints nothing for a path that is not staged.
StagedDiff(index, path) ==
    IF \E i \in 1..Len(index) : index[i].path = path
    THEN index[CHOOSE i \in 1..Len(index) : index[i].path = path].diff
    ELSE <<>>

\* The output of "git diff --cached --name-status": one line per staged
\* entry, "<code>\t<path>\n".
RECURSIVE StatusOutput(_)
StatusOutput(index) ==
    IF index = <<>> THEN <<>>
    ELSE Head(index).code \o <<"\t">> \o Head(index).path \o <<"\n">>
         \o StatusOutput(Tail(index))

\* Mutant: the loop of ScanStagedChanges stops at the first diff that fails.
RECURSIVE ScanLinesStopAtFailure(_, _, _)
ScanLinesStopAtFailure(lines, index, failing) ==
    IF lines = <<>>
    THEN <<>>
    ELSE LET line  == Head(lines)
             parts == Fields(line)
         IN  IF line = <<>> \/ Len(parts) < 2
             THEN ScanLinesStopAtFailure(Tail(lines), index, failing)
             ELSE LET d == getFileDiff(parts[2] \in failing,
                                       StagedDiff(index, parts[2]))
                  IN  IF d.err
                      THEN <<>>
                      ELSE <<[FilePath     |-> parts[2],
                              ChangeType   |-> parseChangeType(parts[1]),
                              Diff         |-> d.diff,
                              LinesAdded   |-> d.added,
                              LinesRemoved |-> d.removed]>>
                           \o ScanLinesStopAtFailure(Tail(lines), index, failing)

\* The loop of ScanStagedChanges over the status lines; failing is the set
\* of paths whose diff sub-query fails.
RECURSIVE ScanLines(_, _, _)
ScanLines(lines, index, failing) ==
    IF lines = <<>>
    THEN <<>>
    ELSE LET line  == Head(lines)
             rest  == ScanLines(Tail(lines), index, failing)
             parts == Fields(line)
         IN  IF line = <<>> THEN rest
             ELSE IF Len(parts) < 2 THEN rest
             ELSE LET status   == parts[1]
                      filepath == parts[2]
                      d == getFileDiff(filepath \in failing,
                                       StagedDiff(index, filepath))
                  IN  IF d.err
                      THEN rest
                      ELSE <<[FilePath     |-> filepath,
                              ChangeType   |-> parseChangeType(status),
                              Diff         |-> d.diff,
                              LinesAdded   |-> d.added,
                              LinesRemoved |-> d.removed]>> \o rest

\* ScanStagedChanges: ensureGitRepository, the status query, then the loop.
ScanStagedChanges(isRepo, statusFails, index, failing) ==
    IF ~isRepo THEN [err |-> TRUE, changes |-> <<>>]
    ELSE IF statusFails THEN [err |-> TRUE, changes |-> <<>>]
    ELSE LET lines == SplitLines(TrimSpace(StatusOutput(index)))
         IN  IF Len(lines) = 1 /\ lines[1] = <<>>
             THEN [err |-> FALSE, changes |-> <<>>]
             ELSE [err |-> FALSE, changes |-> ScanLines(lines, index, failing)]

(***************************************************************************)
(* Prompt construction.                                                    *)
(***************************************************************************)

\* The file cap and the diff cap of buildPrompt.
FileCap == 5
DiffCap == 2000

\* The keys of the changeTypes map of buildChangeContext.
KindsOf(changes) == {changes[i].ChangeType : i \in 1..Len(changes)}

\* changeTypes[kind] after the counting loop.
KindCount(changes, kind) ==
    Cardinality({i \in 1..Len(changes) : changes[i].ChangeType = kind})

\* The orders in which "for changeType, count := range changeTypes" may
\* visit the keys: Go leaves the iteration order of a map unspecified and
\* the runtime varies it from one loop to the next.
MapOrders(keys) ==
    {o \in [1..Cardinality(keys) -> keys] :
        \A i, j \in 1..Cardinality(keys) : i # j => o[i] # o[j]}

\* Mutant: only the first file's added lines are counted.
SumAddedOfFirst(changes) ==
    IF changes = <<>> THEN 0 ELSE Head(changes).LinesAdded

RECURSIVE SumAdded(_)
SumAdded(changes) ==
    IF changes = <<>> THEN 0
    ELSE Head(changes).LinesAdded + SumAdded(Tail(changes))

RECURSIVE SumRemoved(_)
SumRemoved(changes) ==
    IF changes = <<>> THEN 0
    ELSE Head(changes).LinesRemoved + SumRemoved(Tail(changes))

\* strings.Join(typesSummary, ", ") for the keys visited in this order.
RECURSIVE TypesSummary(_, _)
TypesSummary(changes, order) ==
    IF order = <<>> THEN ""
    ELSE ToString(KindCount(changes, Head(order))) \o " " \o Head(order)
         \o (IF Len(order) > 1 THEN ", " ELSE "")
         \o TypesSummary(changes, Tail(order))

\* ext of buildChangeContext: the path from its last dot on, or empty.
ExtOf(path) ==
    IF LastIndexDot(path) # 0
    THEN SubSeq(path, LastIndexDot(path), Len(path))
    ELSE <<>>

\* The "File Type" line of buildChangeContext.
FileTypeLine(path) ==
    LET ext == Str(ExtOf(path))
    IN  CASE ext = ".go"   -> "   File Type: Go source code\n"
          [] ext \in {".js", ".ts"} -> "   File Type: JavaScript/TypeScript\n"
          [] ext = ".py"   -> "   File Type: Python script\n"
          [] ext = ".md"   -> "   File Type: Markdown documentation\n"
          [] ext = ".json" -> "   File Type: JSON configuration\n"
          [] ext \in {".yml", ".yaml"} -> "   File Type: YAML configuration\n"
          [] ext = "" ->
               IF Contains(path, <<"M", "a", "k", "e", "f", "i", "l", "e">>)
               THEN "   File Type: Build script\n"
               ELSE "   File Type: Binary or script file\n"
          [] OTHER -> "   File Type: " \o ext \o " file\n"

\* The "DETAILED FILE BREAKDOWN" loop of buildChangeContext, from entry i.
RECURSIVE FileBreakdown(_, _)
FileBreakdown(changes, i) ==
    IF i > Len(changes) THEN ""
    ELSE LET change == changes[i]
         IN  ToString(i) \o ". " \o Str(change.FilePath) \o " ("
             \o change.ChangeType \o Str(ExtOf(change.FilePath)) \o "):\n"
             \o "   Lines changed: +" \o ToString(change.LinesAdded)
             \o " -" \o ToString(change.LinesRemoved) \o "\n"
             \o FileTypeLine(change.FilePath)
             \o "\n"
             \o FileBreakdown(changes, i + 1)

\* buildChangeContext, with the order in which the map loop visits its keys.
buildChangeContext(changes, order) ==
    "REPOSITORY CHANGE SUMMARY:\n"
    \o "Total Files Changed: " \o ToString(Len(changes)) \o "\n"
    \o "Total Lines: +" \o ToString(SumAdded(changes))
    \o " -" \o ToString(SumRemoved(changes)) \o "\n"
    \o "Change Types: "
    \o TypesSummary(changes, order)
    \o "\n\n"
    \o "DETAILED FILE BREAKDOWN:\n"
    \o FileBreakdown(changes, 1)

\* strings.Repeat("=", n)
RECURSIVE RepeatEq(_)
RepeatEq(n) == IF n = 0 THEN "" ELSE "=" \o RepeatEq(n - 1)

\* The diff as buildPrompt embeds it.
EmbeddedDiff(diff) ==
    IF Len(diff) > DiffCap
    THEN Str(SubSeq(diff, 1, DiffCap))
         \o "\n... (truncated - showing first 2000 characters)"
    ELSE Str(diff)

\* The per-file loop of buildPrompt, from entry i (0-based in the code).
RECURSIVE DiffSections(_, _)
DiffSections(changes, i) ==
    IF i > Len(changes) THEN ""
    ELSE IF i - 1 >= FileCap
    THEN "... and " \o ToString(Len(changes) - FileCap) \o " more files\n\n"
    ELSE LET change == changes[i]
         IN  (IF change.Diff # <<>>
              THEN "=== DETAILED CHANGES IN " \o Str(change.FilePath) \o " ===\n"
                   \o "Change Type: " \o change.ChangeType \o "\n"
                   \o "Lines Added: " \o ToString(change.LinesAdded)
                   \o ", Lines Removed: " \o ToString(change.LinesRemoved) \o "\n\n"
                   \o "DIFF CONTENT:\n"
                   \o EmbeddedDiff(change.Diff)
                   \o "\n" \o RepeatEq(50) \o "\n\n"
              ELSE "=== " \o Str(change.FilePath) \o " ===\n"
                   \o "Change Type: " \o change.ChangeType
                   \o " (binary file or no diff available)\n\n")
             \o DiffSections(changes, i + 1)

\* The fixed text buildPrompt ends with.
PromptInstructions ==
    "Based on the above changes, generate a commit message that:\n"
    \o "1. Uses conventional commit format (feat/fix/docs/style/refactor/test/chore)\n"
    \o "2. Has a clear, descriptive subject line (50 characters or less)\n"
    \o "3. SPECIFICALLY mentions what functionality was added/changed/fixed\n"
    \o "4. Uses present tense, imperative mood (e.g., 'add', 'fix', 'update')\n"
    \o "5. Includes a body with more details if the changes are significant\n\n"
    \o "IMPORTANT GUIDELINES:\n"
    \o "- Be SPECIFIC about what changed (don't just say 'add functionality')\n"
    \o "- Mention key functions, features, or components that were modified\n"
    \o "- If it's a new file, mention what it contains or does\n"
    \o "- If it's a modification, mention what was improved/changed\n"
    \o "- Focus on the 'what' and 'why' of the changes\n\n"
    \o "Examples of GOOD commit messages:\n"
    \o "- 'feat: add interactive model selection with recommendations'\n"
    \o "- 'fix: correct model validation in prerequisites check'\n"
    \o "- 'refactor: enhance logging with detailed progress indicators'\n"
    \o "- 'feat: implement git push with remote repository detection'\n\n"
    \o "Examples of BAD commit messages (avoid these):\n"
    \o "- 'add functionality'\n"
    \o "- 'update files'\n"
    \o "- 'fix bugs'\n"
    \o "- 'initial commit'\n\n"
    \o "Respond with only the commit message (subject and optional body), no additional text or formatting."

\* buildPrompt
buildPrompt(context, changes) ==
    "You are an expert developer assistant that generates detailed, meaningful Git commit messages based on actual code changes.\n\n"
    \o "Analyze the following file changes and diffs carefully:\n\n"
    \o context
    \o "\n"
    \o DiffSections(changes, 1)
    \o PromptInstructions

(***************************************************************************)
(* The inference client and the suggestion parser.                         *)
(***************************************************************************)

\* New(config): the commenter keeps the caller's config object (the
\* variable config below) and builds its HTTP client from config.Timeout;
\* a zero Timeout means the client never times out.
New(cfg) == [Timeout |-> cfg.Timeout]

\* ListAvailableModels: GET <endpoint>/api/tags.  serving is the set of
\* endpoints that answer it successfully, list the models the backend has.
ListAvailableModels(endpoint, serving, list) ==
    IF endpoint \in serving
    THEN [err |-> FALSE, models |-> list]
    ELSE [err |-> TRUE, models |-> <<>>]

\* Mutant: callOllama that returns the response field as it came.
callOllamaUntrimmed(reply) ==
    IF reply.kind = "ok"
    THEN [err |-> FALSE, text |-> reply.response]
    ELSE [err |-> TRUE, text |-> <<>>]

\* Mutant: callOllama that takes a body it cannot decode for an empty
\* response.
callOllamaLenient(reply) ==
    IF reply.kind \in {"ok", "undecodable"}
    THEN [err |-> FALSE, text |-> TrimSpace(reply.response)]
    ELSE [err |-> TRUE, text |-> <<>>]

\* callOllama, given what happens to the one POST it issues: the request
\* fails, the backend accepts it and never replies (client.Post then fails
\* once the client's timeout has passed), the status is not 200, the body is
\* not the expected JSON, or the body decodes to a response field (empty
\* when the field is missing).
callOllama(reply) ==
    CASE reply.kind = "unreachable" -> [err |-> TRUE, text |-> <<>>]
      [] reply.kind = "silent"      -> [err |-> TRUE, text |-> <<>>]
      [] reply.kind = "status"      -> [err |-> TRUE, text |-> <<>>]
      [] reply.kind = "undecodable" -> [err |-> TRUE, text |-> <<>>]
      [] OTHER -> [err |-> FALSE, text |-> TrimSpace(reply.response)]

\* Whether client.Post is still waiting for this reply: the client waits
\* until the reply or its timeout, whichever is first.
Waits(reply) == reply.kind = "silent"

\* The client gives up waiting only if it has a timeout: a zero
\* http.Client.Timeout means no timeout.
TimesOut(cl) == cl.Timeout > 0

\* The tenths of CommitSuggestion.Confidence (0.8).
Confidence == 8

\* bodyLines after the loop that removes the empty lines at its beginning.
DropLeadingBlank(bodyLines) ==
    IF \E i \in 1..Len(bodyLines) : TrimSpace(bodyLines[i]) # <<>>
    THEN LET k == CHOOSE i \in 1..Len(bodyLines) :
                      /\ TrimSpace(bodyLines[i]) # <<>>
                      /\ \A j \in 1..(i - 1) : TrimSpace(bodyLines[j]) = <<>>
         IN  SubSeq(bodyLines, k, Len(bodyLines))
    ELSE bodyLines

\* Mutant: parseCommitSuggestion that lists the files in reverse order.
parseCommitSuggestionReversedFiles(response, changes) ==
    LET lines == SplitLines(response)
    IN  [Subject       |-> IF Len(lines) > 0 THEN TrimSpace(lines[1]) ELSE <<>>,
         Body          |-> TrimSpace(IF Len(lines) > 1
                                     THEN JoinLines(DropLeadingBlank(Tail(lines)))
                                     ELSE <<>>),
         Confidence    |-> Confidence,
         FilesAffected |-> [i \in 1..Len(changes) |->
                              changes[Len(changes) + 1 - i].FilePath]]

\* Mutant: parseCommitSuggestion that trims neither subject nor body.
parseCommitSuggestionUntrimmed(response, changes) ==
    LET lines == SplitLines(response)
    IN  [Subject       |-> IF Len(lines) > 0 THEN lines[1] ELSE <<>>,
         Body          |-> IF Len(lines) > 1
                           THEN JoinLines(DropLeadingBlank(Tail(lines)))
                           ELSE <<>>,
         Confidence    |-> Confidence,
         FilesAffected |-> [i \in 1..Len(changes) |-> changes[i].FilePath]]

\* parseCommitSuggestion
parseCommitSuggestion(response, changes) ==
    LET lines == SplitLines(response)
        subject == IF Len(lines) > 0 THEN TrimSpace(lines[1]) ELSE <<>>
        body == IF Len(lines) > 1
                THEN JoinLines(DropLeadingBlank(Tail(lines)))
                ELSE <<>>
    IN  [Subject       |-> subject,
         Body          |-> TrimSpace(body),
         Confidence    |-> Confidence,
         FilesAffected |-> [i \in 1..Len(changes) |-> changes[i].FilePath]]

\* The value of a *CommitSuggestion that was never set.
NoSuggestion ==
    [Subject |-> <<>>, Body |-> <<>>, Confidence |-> 0, FilesAffected |-> <<>>]

\* Mutant: GenerateCommitMessage without the check for no changes.
GenerateCommitMessageUnguarded(cfg, changes, order, reply) ==
    LET prompt   == buildPrompt(buildChangeContext(changes, order), changes)
        response == callOllama(reply)
        request  == [Endpoint |-> cfg.OllamaEndpoint,
                     Model |-> cfg.Model, Prompt |-> prompt]
    IN  [err |-> response.err, prompts |-> <<prompt>>, requests |-> <<request>>,
         suggestion |-> IF response.err THEN NoSuggestion
                        ELSE parseCommitSuggestion(response.text, changes)]

\* Mutant: the commenter asks for the default model, whatever the
\* configuration says when the request is sent.
GenerateCommitMessageDefaultModel(cfg, changes, order, reply) ==
    LET prompt   == buildPrompt(buildChangeContext(changes, order), changes)
        response == callOllama(reply)
        request  == [Endpoint |-> cfg.OllamaEndpoint,
                     Model |-> DefaultModel, Prompt |-> prompt]
    IN  IF Len(changes) = 0
        THEN [err |-> TRUE, prompts |-> <<>>, requests |-> <<>>,
              suggestion |-> NoSuggestion]
        ELSE [err |-> response.err, prompts |-> <<prompt>>,
              requests |-> <<request>>,
              suggestion |-> IF response.err THEN NoSuggestion
                             ELSE parseCommitSuggestion(response.text, changes)]

\* GenerateCommitMessage: the prompts it builds, the generate requests it
\* sends, and what it returns.
GenerateCommitMessage(cfg, changes, order, reply) ==
    IF Len(changes) = 0
    THEN [err |-> TRUE, prompts |-> <<>>, requests |-> <<>>,
          suggestion |-> NoSuggestion]
    ELSE LET context  == buildChangeContext(changes, order)
             prompt   == buildPrompt(context, changes)
             response == callOllama(reply)
             request  == [Endpoint |-> cfg.OllamaEndpoint,
                          Model |-> cfg.Model, Prompt |-> prompt]
         IN  IF response.err
             THEN [err |-> TRUE, prompts |-> <<prompt>>,
                   requests |-> <<request>>, suggestion |-> NoSuggestion]
             ELSE [err |-> FALSE, prompts |-> <<prompt>>,
                   requests |-> <<request>>,
                   suggestion |-> parseCommitSuggestion(response.text, changes)]

(***************************************************************************)
(* Standard input of ai-git-auto (src/cmd/ai-git-auto/main.go).            *)
(***************************************************************************)

\* Mutant: an empty answer is not a yes.
askForApprovalNoDefault(read) ==
    LET response == ToLower(TrimSpace(read))
    IN  response = <<"y">> \/ response = <<"y", "e", "s">>

\* askForApproval, given what ReadString('\n') returns (its error is
\* dropped, so the end of input reads as the text before it).
askForApproval(read) ==
    LET response == ToLower(TrimSpace(read))
    IN  response = <<>> \/ response = <<"y">> \/ response = <<"y", "e", "s">>

Digits == <<"0", "1", "2", "3", "4", "5", "6", "7", "8", "9">>
IsDigit(c) == \E d \in 1..Len(Digits) : Digits[d] = c
DigitValue(c) == (CHOOSE d \in 1..Len(Digits) : Digits[d] = c) - 1

\* The value of the leading digits of s, continuing from acc.
RECURSIVE ScanDigits(_, _)
ScanDigits(s, acc) ==
    IF s # <<>> /\ IsDigit(Head(s))
    THEN ScanDigits(Tail(s), acc * 10 + DigitValue(Head(s)))
    ELSE acc

\* fmt.Sscanf(input, "%d", &selection): an optional sign, then digits; what
\* follows the digits is left unread.
Sscanf(input) ==
    LET signed == input # <<>> /\ Head(input) \in {"+", "-"}
        digits == IF signed THEN Tail(input) ELSE input
    IN  IF digits # <<>> /\ IsDigit(Head(digits))
        THEN [n |-> 1,
              value |-> IF signed /\ Head(input) = "-"
                        THEN 0 - ScanDigits(digits, 0)
                        ELSE ScanDigits(digits, 0)]
        ELSE [n |-> 0, value |-> 0]

\* promptUserForModel, given a non-empty list and what ReadString('\n')
\* returns: the text read, and whether the input ended before a newline.
promptUserForModel(availableModels, read, eof) ==
    IF eof THEN [err |-> TRUE, model |-> ""]
    ELSE LET input == TrimSpace(read)
             scan  == Sscanf(input)
         IN  IF input = <<>>
             THEN [err |-> FALSE, model |-> availableModels[1]]
             ELSE IF scan.n # 1 \/ scan.value < 1
                     \/ scan.value > Len(availableModels)
             THEN [err |-> FALSE, model |-> availableModels[1]]
             ELSE [err |-> FALSE, model |-> availableModels[scan.value]]

(***************************************************************************)
(* The state of one run.                                                   *)
(***************************************************************************)

VARIABLES
    pc,          \* where the run is: a step of main, "Done", "Aborted",
                 \* or "lib" for a program that calls the library itself
    flags,       \* the command line flags (model is rewritten by selection)
    config,      \* the Config object shared by main and the commenter
    client,      \* the commenter's HTTP client
    isRepo,      \* the working directory is inside a Git repository
    serving,     \* the endpoints that answer list-models successfully
    index,       \* the staged entries, in status order
    unstaged,    \* the changed entries "git add ." would stage
    commits,     \* the commits made so far in this run
    pushes,      \* the number of successful pushes in this run
    ops,         \* the external operations executed so far, in order
    asked,       \* the prompts read from standard input so far, in order
    changes,     \* the ChangeSet of the last scan
    suggestion,  \* the CommitSuggestion of the last generate
    prompts,     \* every prompt built so far, with the input it was built from
    requests,    \* every generate request sent so far
    commitApproved, pushApproved,  \* the locals of main of these names
    remotes,     \* the local of main of this name
    fatal,       \* the message of log.Fatalf, "" while there was none
    exit,        \* <<>> while the process runs, then <<its exit status>>
    calls,       \* library calls made by the "lib" program
    availableModels,  \* the local of main of this name
    results      \* the last direct call of a library function: its
                 \* arguments and what it returned (<<>> before any)

vars == <<pc, flags, config, client, isRepo, serving, index, unstaged,
          commits, pushes, ops, asked, changes, suggestion, prompts,
          requests, commitApproved, pushApproved, remotes, fatal, exit,
          calls, availableModels, results>>

world == <<isRepo, serving>>

(***************************************************************************)
(* The inputs of a run.                                                    *)
(***************************************************************************)

OtherEndpoint == "http://gpu-host:11434"
Endpoints == {DefaultEndpoint, OtherEndpoint}

\* Values of -model and the model lists a backend may return.
ModelFlags == {"llama2", "codellama"}
ModelLists == {<<>>, <<"llama2", "mistral">>}

\* Staged and unstaged entries.
DiffA == <<"-", "-", "-", " ", "a", "\n", "+", "+", "+", " ", "a", "\n",
           "-", "x", "\n", "+", "y", "\n", "+", "z">>
DiffB == <<"+", "n", "e", "w", "\n">>
EntryA == [code |-> <<"M">>, path |-> <<"a", ".", "g", "o">>, diff |-> DiffA]
EntryB == [code |-> <<"A">>, path |-> <<"R", "E", "A", "D", "M", "E">>,
           diff |-> DiffB]
EntryC == [code |-> <<"D">>, path |-> <<"o", "l", "d", ".", "m", "d">>,
           diff |-> <<>>]

\* The repositories a run of ai-git-auto may start in: <<index, unstaged>>.
Repos ==
    {<<<<>>, <<>>>>, <<<<>>, <<EntryB>>>>, <<<<EntryA, EntryC>>, <<>>>>,
     <<<<EntryC>>, <<EntryB>>>>}

\* A staged file whose name holds a space, and the repositories a program
\* that calls the library may run in.
EntrySpaced ==
    [code |-> <<"A">>, path |-> Chars("my notes.txt"), diff |-> DiffB]
LibRepos == Repos \cup {<<<<EntrySpaced, EntryA>>, <<>>>>}

\* What the user may type at an approval prompt before the input ends.
Answers == {<<"\n">>, <<" ", "Y", "E", "S", "\n">>, <<"y">>, <<"n", "o", "\n">>}

\* What the user may type at the model prompt before the input ends.
ModelInputs ==
    {<<"\n">>, <<"2", "\n">>, <<"9", "\n">>, <<"2", "x", "\n">>, <<>>}

\* What may happen to a generate request.
Replies ==
    {[kind |-> k, response |-> <<>>] :
        k \in {"unreachable", "silent", "status", "undecodable"}}
    \cup {[kind |-> "ok", response |-> r] :
            r \in {<<"\n", "f", "i", "x", "\n", "\n", "w", "h", "y">>,
                   <<" ", "\n">>}}

\* Raw texts of a backend.
Responses ==
    {<<>>,
     <<"f", "i", "x">>,
     <<" ", "f", "i", "x", " ", "\n", "\n", " ", "\n", "w", "h", "y", " ",
       "\n", "\n", "h", "o", "w", "\n", " ">>,
     <<"s", "\t", "\n", " ", "\n", "\t", "\n">>,
     <<"\n", "f", "i", "x">>,
     <<"a", "\n", "b">>,
     <<" ", "\r", "\n", "\t", "\n", " ", "a", "d", "d", " ", "x", "\r", "\n",
       "b", "\n">>,
     <<"\n", " ", "\t", "\n">>}

\* What may happen to a generate request of a program that calls the
\* library itself.
LibReplies ==
    Replies \cup {[kind |-> "ok", response |-> r] : r \in Responses}

\* The number of library calls a "lib" program makes.
MaxCalls == 3

Op(name, arg) == [op |-> name, arg |-> arg]

\* The Config of a run before main builds it.
NoConfig == [OllamaEndpoint |-> "", Model |-> "", Timeout |-> 0]

FlagSets ==
    [model : ModelFlags, endpoint : Endpoints, listModels : BOOLEAN,
     interactive : BOOLEAN, skipAdd : BOOLEAN, skipPush : BOOLEAN,
     dryRun : BOOLEAN, showVersion : BOOLEAN, force : BOOLEAN]

\* The flag defaults of main.
DefaultFlags ==
    [model |-> DefaultModel, endpoint |-> DefaultEndpoint, listModels |-> FALSE,
     interactive |-> TRUE, skipAdd |-> FALSE, skipPush |-> FALSE,
     dryRun |-> FALSE, showVersion |-> FALSE, force |-> FALSE]

InitCommon ==
    /\ commits = <<>>
    /\ pushes = 0
    /\ ops = <<>>
    /\ asked = <<>>
    /\ changes = <<>>
    /\ suggestion = NoSuggestion
    /\ prompts = <<>>
    /\ requests = <<>>
    /\ commitApproved = FALSE
    /\ pushApproved = FALSE
    /\ remotes = <<>>
    /\ fatal = ""
    /\ exit = <<>>
    /\ calls = 0
    /\ availableModels = <<>>
    /\ results = <<>>

\* A run of ai-git-auto: main has parsed its flags.
InitMain ==
    /\ pc = "main"
    /\ flags \in FlagSets
    /\ config = NoConfig
    /\ client = New(NoConfig)
    /\ isRepo \in BOOLEAN
    /\ serving \in SUBSET Endpoints
    /\ \E r \in Repos : index = r[1] /\ unstaged = r[2]
    /\ InitCommon

\* A program that uses the library directly: it holds New(DefaultConfig())
\* in a repository.
InitLib ==
    /\ pc = "lib"
    /\ flags = DefaultFlags
    /\ config = DefaultConfig
    /\ client = New(DefaultConfig)
    /\ isRepo = TRUE
    /\ serving = Endpoints
    /\ \E r \in LibRepos : index = r[1] /\ unstaged = r[2]
    /\ InitCommon

\* The unit tests of the library: they hold New(nil), which is
\* New(DefaultConfig()), and call its functions directly.
InitTest ==
    /\ pc = "test"
    /\ flags = DefaultFlags
    /\ config = DefaultConfig
    /\ client = New(DefaultConfig)
    /\ isRepo = TRUE
    /\ serving = Endpoints
    /\ index = <<>>
    /\ unstaged = <<>>
    /\ InitCommon

Init == InitMain \/ InitLib \/ InitTest

(***************************************************************************)
(* main of ai-git-auto, step by step.                                      *)
(***************************************************************************)

\* Mutant: a fatal error that ends the process with status 0.
FatalExitsZero(msg) == pc' = "Aborted" /\ exit' = <<0>> /\ fatal' = msg

\* log.Fatalf: the message, then os.Exit(1).
Fatal(msg) == pc' = "Aborted" /\ exit' = <<1>> /\ fatal' = msg

\* A return from main: the process ends with status 0.
Return == pc' = "Done" /\ exit' = <<0>> /\ UNCHANGED fatal

\* main goes on to its next step.
Goto(step) == pc' = step /\ UNCHANGED <<exit, fatal>>

\* Flag handling, the Config literal and New(config).
Start ==
    /\ pc = "main"
    /\ IF flags.showVersion
       THEN /\ Return
            /\ UNCHANGED <<config, client>>
       ELSE /\ config' = [OllamaEndpoint |-> flags.endpoint,
                          Model |-> flags.model, Timeout |-> 0]
            /\ client' = New(config')
            /\ Goto(IF flags.listModels THEN "ListModels" ELSE "Verify")
    /\ UNCHANGED <<flags, world, index, unstaged, commits, pushes, ops, asked,
                   changes, suggestion, prompts, requests, commitApproved,
                   pushApproved, remotes, calls, availableModels, results>>

\* -list-models
ListModels ==
    /\ pc = "ListModels"
    /\ \E list \in ModelLists :
         LET r == ListAvailableModels(config.OllamaEndpoint, serving, list)
         IN  /\ ops' = Append(ops, Op("ListAvailableModels", config.OllamaEndpoint))
             /\ IF r.err THEN Fatal("Failed to list models") ELSE Return
    /\ UNCHANGED <<flags, config, client, world, index, unstaged, commits,
                   pushes, asked, changes, suggestion, prompts, requests,
                   commitApproved, pushApproved, remotes, calls,
                   availableModels, results>>

\* Mutant: verifyPrerequisites without the repository check.
verifyPrerequisitesNoRepoCheck(repo, srv) ==
    [err |-> IF ListAvailableModels(DefaultConfig.OllamaEndpoint, srv, <<>>).err
             THEN "Ollama is not running or not accessible at "
                  \o DefaultConfig.OllamaEndpoint
             ELSE "",
     ops |-> <<Op("ListAvailableModels", DefaultConfig.OllamaEndpoint)>>]

\* verifyPrerequisites: the operations it executes and the error it returns
\* ("" for nil).
verifyPrerequisites(repo, srv) ==
    IF ~repo
    THEN [err |-> "not in a Git repository",
          ops |-> <<Op("isGitRepository", "")>>]
    ELSE [err |-> IF ListAvailableModels(DefaultConfig.OllamaEndpoint, srv, <<>>).err
                  THEN "Ollama is not running or not accessible at "
                       \o DefaultConfig.OllamaEndpoint
                  ELSE "",
          ops |-> <<Op("isGitRepository", ""),
                    Op("ListAvailableModels", DefaultConfig.OllamaEndpoint)>>]

\* "Verifying prerequisites...": verifyPrerequisites, fatal on failure.
Verify ==
    /\ pc = "Verify"
    /\ LET v == verifyPrerequisites(isRepo, serving)
       IN  /\ ops' = ops \o v.ops
           /\ IF v.err # "" THEN Fatal(v.err) ELSE Goto("Connect")
    /\ UNCHANGED <<flags, config, client, world, index, unstaged, commits,
                   pushes, asked, changes, suggestion, prompts, requests,
                   commitApproved, pushApproved, remotes, calls,
                   availableModels, results>>

\* ReadString('\n') fails when the input ends before a newline.
EndOfInput(read) == read = <<>> \/ read[Len(read)] # "\n"

\* "Testing connection to Ollama", then the check or selection of the model.
CheckModel ==
    /\ pc = "Connect"
    /\ \E list \in ModelLists, input \in ModelInputs :
         LET r == ListAvailableModels(config.OllamaEndpoint, serving, list)
             listOp == Op("ListAvailableModels", config.OllamaEndpoint)
             modelExists == \E i \in 1..Len(r.models) : r.models[i] = flags.model
         IN  /\ availableModels' = r.models
             /\ IF r.err
                THEN /\ ops' = Append(ops, listOp)
                     /\ Fatal("Failed to connect to Ollama")
                     /\ UNCHANGED <<flags, config, asked>>
                ELSE IF modelExists
                THEN /\ ops' = Append(ops, listOp)
                     /\ config' = [config EXCEPT !.Model = flags.model]
                     /\ Goto("Stage")
                     /\ UNCHANGED <<flags, asked>>
                ELSE IF Len(r.models) = 0
                THEN /\ ops' = Append(ops, listOp)
                     /\ Fatal("No Ollama models available")
                     /\ UNCHANGED <<flags, config, asked>>
                ELSE LET sel == promptUserForModel(r.models, input,
                                                   EndOfInput(input))
                     IN  /\ ops' = ops \o <<listOp, Op("promptUserForModel", "")>>
                         /\ asked' = Append(asked, [action |-> "select a model",
                                                    answer |-> input])
                         /\ IF sel.err
                            THEN Fatal("Model selection cancelled")
                                 /\ UNCHANGED <<flags, config>>
                            ELSE /\ flags' = [flags EXCEPT !.model = sel.model]
                                 /\ config' = [config EXCEPT !.Model = sel.model]
                                 /\ Goto("Stage")
    /\ UNCHANGED <<client, world, index, unstaged, commits, pushes,
                   changes, suggestion, prompts, requests, commitApproved,
                   pushApproved, remotes, calls, results>>

\* Mutant: Step 1 runs "git add ." in spite of -skip-add.
StageRunsWithSkipAdd(f) == ~f.dryRun

\* Mutant: Step 1 forgets the dry-run check.
StageRunsInDryRun(f) == ~f.skipAdd

\* Step 1 runs "git add ." unless -skip-add or -dry-run.
StageRuns(f) == ~f.skipAdd /\ ~f.dryRun

\* Step 1: git add (unless skipped).
Stage ==
    /\ pc = "Stage"
    /\ \E ok \in BOOLEAN :
         /\ ops' = ops
                   \o (IF ~flags.skipAdd THEN <<Op("getUnstagedFiles", "")>> ELSE <<>>)
                   \o (IF StageRuns(flags) THEN <<Op("runGitAdd", "")>> ELSE <<>>)
         /\ IF ~StageRuns(flags)
            THEN Goto("Scan") /\ UNCHANGED <<index, unstaged>>
            ELSE IF ok
            THEN /\ index' = index \o unstaged
                 /\ unstaged' = <<>>
                 /\ Goto("Scan")
            ELSE Fatal("Failed to stage changes") /\ UNCHANGED <<index, unstaged>>
    /\ UNCHANGED <<flags, config, client, world, commits, pushes, asked,
                   changes, suggestion, prompts, requests, commitApproved,
                   pushApproved, remotes, calls, availableModels, results>>

\* The paths ScanStagedChanges asks a diff for.
ScanPaths(idx) ==
    LET lines == SplitLines(TrimSpace(StatusOutput(idx)))
    IN  {Fields(lines[i])[2] : i \in {j \in 1..Len(lines) : Len(Fields(lines[j])) >= 2}}

\* A call of ScanStagedChanges: what the repository held, which queries
\* failed, and what the call returned.
ScanCall(statusFails, idx, failing, r) ==
    <<[fn |-> "ScanStagedChanges", statusFails |-> statusFails, index |-> idx,
       failing |-> failing, out |-> r]>>

\* Step 2: scan the staged changes; no changes end the run.
Scan ==
    /\ pc = "Scan"
    /\ \E statusFails \in BOOLEAN, failing \in SUBSET ScanPaths(index) :
         LET r == ScanStagedChanges(isRepo, statusFails, index, failing)
         IN  /\ ops' = Append(ops, Op("ScanStagedChanges", ""))
             /\ results' = ScanCall(statusFails, index, failing, r)
             /\ IF r.err
                THEN Fatal("Failed to scan changes") /\ UNCHANGED changes
                ELSE /\ changes' = r.changes
                     /\ IF Len(r.changes) = 0 THEN Return ELSE Goto("Generate")
    /\ UNCHANGED <<flags, config, client, world, index, unstaged, commits,
                   pushes, asked, suggestion, prompts, requests,
                   commitApproved, pushApproved, remotes, calls,
                   availableModels>>

\* The prompts a call of GenerateCommitMessage adds to the history.
Built(g, chs) ==
    [i \in 1..Len(g.prompts) |-> [changes |-> chs, text |-> g.prompts[i]]]

\* Mutant: the generate request is sent a second time.
GenerateOpsRetry(g) ==
    [i \in 1..Len(g.prompts) |-> Op("buildPrompt", "")]
    \o [i \in 1..Len(g.requests) |-> Op("callOllama", g.requests[i].Endpoint)]
    \o [i \in 1..Len(g.requests) |-> Op("callOllama", g.requests[i].Endpoint)]

\* The operations a call of GenerateCommitMessage executes.
GenerateOps(g) ==
    [i \in 1..Len(g.prompts) |-> Op("buildPrompt", "")]
    \o [i \in 1..Len(g.requests) |-> Op("callOllama", g.requests[i].Endpoint)]

\* A call of GenerateCommitMessage as the caller sees it, with what happened
\* to its request.
GenerateCall(chs, reply, g) ==
    <<[fn |-> "GenerateCommitMessage", changes |-> chs, reply |-> reply,
       out |-> g]>>

\* Step 3: generate the commit message.  While the backend has not replied
\* main waits inside the call ("Inferring"): nothing else runs in the
\* process.
Generate ==
    /\ pc = "Generate"
    /\ \E order \in MapOrders(KindsOf(changes)), reply \in Replies :
         LET g == GenerateCommitMessage(config, changes, order, reply)
         IN  /\ ops' = ops \o GenerateOps(g)
             /\ prompts' = prompts \o Built(g, changes)
             /\ requests' = requests \o g.requests
             /\ results' = GenerateCall(changes, reply, g)
             /\ IF Len(g.requests) > 0 /\ Waits(reply)
                THEN Goto("Inferring") /\ UNCHANGED suggestion
                ELSE IF g.err
                THEN Fatal("Failed to generate commit message")
                     /\ UNCHANGED suggestion
                ELSE suggestion' = g.suggestion /\ Goto("Commit")
    /\ UNCHANGED <<flags, config, client, world, index, unstaged, commits,
                   pushes, asked, changes, commitApproved, pushApproved,
                   remotes, calls, availableModels>>

\* "!*interactive || *force || askForApproval(...)": whether the prompt is
\* issued (the || short-circuits), and the value of the expression.
Asks(f) == f.interactive /\ ~f.force
Approval(f, answer) == ~f.interactive \/ f.force \/ askForApproval(answer)

\* The prompt a step issues, as an operation and as an answered question.
AskOps(f, action) == IF Asks(f) THEN <<Op("askForApproval", action)>> ELSE <<>>
Asked(f, action, answer) ==
    IF Asks(f) THEN <<[action |-> action, answer |-> answer]>> ELSE <<>>

\* The branch Step 4 takes: "dry", "commit" or "cancel".
CommitBranch(f, approved) ==
    IF f.dryRun THEN "dry" ELSE IF approved THEN "commit" ELSE "cancel"

\* Whether "git commit -m <subject> [-m <body>]" may succeed: git refuses
\* to commit with an empty message, and may fail for other reasons.
CommitOutcomes(s) ==
    IF s.Subject = <<>> /\ s.Body = <<>> THEN {FALSE} ELSE BOOLEAN

\* Step 4: commit.
Commit ==
    /\ pc = "Commit"
    /\ \E answer \in Answers, ok \in CommitOutcomes(suggestion) :
         LET approved == Approval(flags, answer)
             branch == CommitBranch(flags, approved)
             askOps == AskOps(flags, "commit with this message")
         IN  /\ commitApproved' = approved
             /\ asked' = asked \o Asked(flags, "commit with this message", answer)
             /\ CASE branch = "dry" ->
                       /\ ops' = ops \o askOps
                       /\ Goto("Push")
                       /\ UNCHANGED <<commits, index>>
                  [] branch = "commit" /\ ok ->
                       /\ ops' = ops \o askOps
                                 \o <<Op("runGitCommit", ""), Op("getLastCommitHash", "")>>
                       /\ commits' = Append(commits,
                                            [Subject |-> suggestion.Subject,
                                             Body |-> suggestion.Body,
                                             entries |-> index])
                       /\ index' = <<>>
                       /\ Goto("Push")
                  [] branch = "commit" /\ ~ok ->
                       /\ ops' = ops \o askOps \o <<Op("runGitCommit", "")>>
                       /\ Fatal("Failed to commit")
                       /\ UNCHANGED <<commits, index>>
                  [] OTHER ->
                       /\ ops' = ops \o askOps
                       /\ Return
                       /\ UNCHANGED <<commits, index>>
    /\ UNCHANGED <<flags, config, client, world, unstaged, pushes, changes,
                   suggestion, prompts, requests, pushApproved, remotes, calls,
                   availableModels, results>>

\* What "git remote" may do: fail, or print the remotes, one per line.
RemoteResults ==
    {[failed |-> TRUE, output |-> <<>>], [failed |-> FALSE, output |-> <<>>],
     [failed |-> FALSE, output |-> <<"o", "r", "i", "g", "i", "n", "\n">>]}

\* The non-empty lines among lines.
RECURSIVE NonEmptyLines(_)
NonEmptyLines(lines) ==
    IF lines = <<>> THEN <<>>
    ELSE (IF Head(lines) # <<>> THEN <<Head(lines)>> ELSE <<>>)
         \o NonEmptyLines(Tail(lines))

\* getConfiguredRemotes
getConfiguredRemotes(result) ==
    IF result.failed
    THEN [err |-> TRUE, remotes |-> <<>>]
    ELSE [err |-> FALSE,
          remotes |-> NonEmptyLines(SplitLines(TrimSpace(result.output)))]

\* Mutant: only a failed remote query skips the push.
NoRemoteOnErrorOnly(r) == r.err

\* "err != nil || len(remotes) == 0": the push is skipped with a notice.
NoRemote(r) == r.err \/ Len(r.remotes) = 0

\* Mutant: Step 5 forgets the dry-run check.
PushRunsInDryRun(f, approved) == approved

\* Step 5 runs "git push" when it is approved and this is no dry run.
PushRuns(f, approved) == ~f.dryRun /\ approved

\* Mutant: a failed push is fatal, like a failed commit.
PushFailedIsFatal == Fatal("Failed to push")

\* A failed push is logged with log.Printf and main goes on to its end.
PushFailed == Return

\* Step 5: push (unless skipped), then "Workflow completed!".
Push ==
    /\ pc = "Push"
    /\ IF flags.skipPush
       THEN /\ Return
            /\ UNCHANGED <<ops, asked, pushes, pushApproved, remotes>>
       ELSE \E result \in RemoteResults, answer \in Answers, ok \in BOOLEAN :
              LET r == getConfiguredRemotes(result)
                  approved == Approval(flags, answer)
                  run == PushRuns(flags, approved)
              IN  /\ remotes' = r.remotes
                  /\ IF NoRemote(r)
                     THEN /\ ops' = Append(ops, Op("getConfiguredRemotes", ""))
                          /\ Return
                          /\ UNCHANGED <<asked, pushes, pushApproved>>
                     ELSE /\ ops' = ops \o <<Op("getConfiguredRemotes", ""),
                                             Op("getCurrentBranch", "")>>
                                        \o AskOps(flags, "push to remote")
                                        \o (IF run THEN <<Op("runGitPush", "")>> ELSE <<>>)
                          /\ pushApproved' = approved
                          /\ asked' = asked \o Asked(flags, "push to remote", answer)
                          /\ pushes' = IF run /\ ok THEN pushes + 1 ELSE pushes
                          /\ IF run /\ ~ok THEN PushFailed ELSE Return
    /\ UNCHANGED <<flags, config, client, world, index, unstaged, commits,
                   changes, suggestion, prompts, requests, commitApproved, calls,
                   availableModels, results>>

(***************************************************************************)
(* A program that calls the library itself.                                *)
(***************************************************************************)

\* commenter.ScanStagedChanges()
LibScan ==
    /\ pc = "lib"
    /\ calls < MaxCalls
    /\ \E statusFails \in BOOLEAN, failing \in SUBSET ScanPaths(index) :
         LET r == ScanStagedChanges(isRepo, statusFails, index, failing)
         IN  /\ ops' = Append(ops, Op("ScanStagedChanges", ""))
             /\ results' = ScanCall(statusFails, index, failing, r)
             /\ changes' = r.changes
    /\ calls' = calls + 1
    /\ UNCHANGED <<pc, flags, config, client, world, index, unstaged, commits,
                   pushes, asked, suggestion, prompts, requests,
                   commitApproved, pushApproved, remotes, fatal, exit,
                   availableModels>>

\* commenter.GenerateCommitMessage(changes)
LibGenerate ==
    /\ pc = "lib"
    /\ calls < MaxCalls
    /\ \E order \in MapOrders(KindsOf(changes)), reply \in LibReplies :
         LET g == GenerateCommitMessage(config, changes, order, reply)
         IN  /\ ops' = ops \o <<Op("GenerateCommitMessage", "")>> \o GenerateOps(g)
             /\ prompts' = prompts \o Built(g, changes)
             /\ requests' = requests \o g.requests
             /\ suggestion' = g.suggestion
             /\ results' = GenerateCall(changes, reply, g)
             /\ pc' = IF Len(g.requests) > 0 /\ Waits(reply)
                      THEN "lib:Inferring" ELSE pc
    /\ calls' = calls + 1
    /\ UNCHANGED <<flags, config, client, world, index, unstaged, commits,
                   pushes, asked, changes, commitApproved, pushApproved,
                   remotes, fatal, exit, availableModels>>

\* The client's timeout passes while the process waits for the reply:
\* client.Post fails, so callOllama and GenerateCommitMessage return an
\* error; main takes it as fatal, a program using the library goes on.
ClientTimeout ==
    /\ pc \in {"Inferring", "lib:Inferring"}
    /\ TimesOut(client)
    /\ IF pc = "Inferring"
       THEN Fatal("Failed to generate commit message")
       ELSE pc' = "lib" /\ UNCHANGED <<exit, fatal>>
    /\ UNCHANGED <<flags, config, client, world, index, unstaged, commits,
                   pushes, ops, asked, changes, suggestion, prompts, requests,
                   commitApproved, pushApproved, remotes, calls,
                   availableModels, results>>

(***************************************************************************)
(* Direct calls of the library's functions (src/gitcommenter_test.go).     *)
(***************************************************************************)

\* Status codes as "git diff --cached --name-status" prints them, and some
\* it does not print.
StatusCodes ==
    {<<"A">>, <<"M">>, <<"D">>, <<"R">>, <<"C">>, <<"R", "1", "0", "0">>,
     <<"C", "7", "5">>, <<"T">>, <<"U">>, <<"X">>, <<"?", "?">>,
     <<"A", "M">>, <<"M", "D">>, <<"d">>}

\* Diff texts.
Diffs ==
    {<<>>, DiffA, DiffB,
     <<"+", "+", "+", "\n", "-", "-", "-", "\n">>,
     <<"+", "+", "x", "\n", "-", "-", "y", "\n", "+", "\n", "-">>,
     <<" ", "+", "\n", "@", "@", " ", "-", "1", "\n", "\\", " ", "-">>}

\* The FileChange of a staged entry.
FileChangeOf(entry) ==
    [FilePath     |-> entry.path,
     ChangeType   |-> parseChangeType(entry.code),
     Diff         |-> entry.diff,
     LinesAdded   |-> countDiffLines(entry.diff).added,
     LinesRemoved |-> countDiffLines(entry.diff).removed]

\* ChangeSets, one of them with the same path twice.
ChangeSets ==
    {<<>>, <<FileChangeOf(EntryA), FileChangeOf(EntryB)>>,
     <<FileChangeOf(EntryC), FileChangeOf(EntryA), FileChangeOf(EntryC)>>}

\* A FileChange written out as gitcommenter_test.go does.
FileChangeLit(path, kind, added, removed) ==
    [FilePath |-> Chars(path), ChangeType |-> kind, Diff |-> <<>>,
     LinesAdded |-> added, LinesRemoved |-> removed]

\* The changes of TestBuildChangeContext.
TestChanges ==
    <<FileChangeLit("file1.go", "modified", 5, 2),
      FileChangeLit("file2.txt", "added", 10, 0)>>

\* Seven staged files of different types.
ManyFiles ==
    <<FileChangeOf([code |-> <<"M">>, path |-> Chars("cmd/main.go"), diff |-> DiffA]),
      FileChangeOf([code |-> <<"A">>, path |-> Chars("web/app.ts"), diff |-> DiffB]),
      FileChangeOf([code |-> <<"D">>, path |-> Chars("docs/old.md"), diff |-> <<>>]),
      FileChangeOf([code |-> <<"M">>, path |-> Chars("Makefile"), diff |-> DiffA]),
      FileChangeOf([code |-> <<"A">>, path |-> Chars("ci.yaml"), diff |-> DiffB]),
      FileChangeOf([code |-> <<"M">>, path |-> Chars("tools/gen.py"), diff |-> DiffA]),
      FileChangeOf([code |-> <<"A">>, path |-> Chars("data.json"), diff |-> DiffB])>>

\* A diff of n bytes that adds lines of ASCII text.
AsciiDiff(n) ==
    [i \in 1..n |-> IF i % 40 = 1 THEN "+" ELSE IF i % 40 = 0 THEN "\n" ELSE "x"]

\* A diff that adds one line of n accented letters: in UTF-8 each is the two
\* bytes C3 A9, written here as Go writes them in a quoted string.
AccentedDiff(n) ==
    <<"+">> \o [i \in 1..(2 * n) |-> IF i % 2 = 1 THEN "\\xc3" ELSE "\\xa9"]

\* Margins around the diff cap of buildPrompt.
DiffLengths == {DiffCap - 1, DiffCap, DiffCap + 1, DiffCap + 40}

\* The staged change of one modified file with this diff.
OneFile(diff) ==
    <<FileChangeOf([code |-> <<"M">>, path |-> Chars("notes.txt"), diff |-> diff])>>

\* ChangeSets the prompt is built for.
PromptChangeSets ==
    ChangeSets
    \cup {TestChanges}
    \cup {SubSeq(ManyFiles, 1, n) : n \in 4..7}
    \cup {OneFile(AsciiDiff(n)) : n \in DiffLengths}
    \cup {OneFile(AccentedDiff(n)) : n \in {DiffCap \div 2, DiffCap \div 2 + 1}}

\* What a test leaves alone.
TestFrame ==
    UNCHANGED <<pc, flags, config, client, world, index, unstaged, commits,
                pushes, ops, asked, changes, suggestion, prompts, requests,
                commitApproved, pushApproved, remotes, fatal, exit, calls,
                availableModels>>

\* commenter.parseChangeType(status)
TestParseChangeType ==
    /\ pc = "test"
    /\ \E status \in StatusCodes :
         results' = <<[fn |-> "parseChangeType", status |-> status,
                       out |-> parseChangeType(status)]>>
    /\ TestFrame

\* commenter.countDiffLines(diff)
TestCountDiffLines ==
    /\ pc = "test"
    /\ \E diff \in Diffs :
         results' = <<[fn |-> "countDiffLines", diff |-> diff,
                       out |-> countDiffLines(diff)]>>
    /\ TestFrame

\* commenter.parseCommitSuggestion(response, changes)
TestParseCommitSuggestion ==
    /\ pc = "test"
    /\ \E response \in Responses, chs \in ChangeSets :
         results' = <<[fn |-> "parseCommitSuggestion", response |-> response,
                       changes |-> chs,
                       out |-> parseCommitSuggestion(response, chs)]>>
    /\ TestFrame

\* commenter.buildChangeContext(changes)
TestBuildChangeContext ==
    /\ pc = "test"
    /\ \E chs \in PromptChangeSets : \E order \in MapOrders(KindsOf(chs)) :
         results' = <<[fn |-> "buildChangeContext", changes |-> chs,
                       out |-> buildChangeContext(chs, order)]>>
    /\ TestFrame

\* commenter.buildPrompt(context, changes) with the context of the same
\* changes, as GenerateCommitMessage calls it.
TestBuildPrompt ==
    /\ pc = "test"
    /\ \E chs \in PromptChangeSets : \E order \in MapOrders(KindsOf(chs)) :
         results' = <<[fn |-> "buildPrompt", changes |-> chs,
                       out |-> buildPrompt(buildChangeContext(chs, order), chs)]>>
    /\ TestFrame

\* commenter.callOllama(prompt), for what may happen to its request.
TestCallOllama ==
    /\ pc = "test"
    /\ \E reply \in LibReplies :
         results' = <<[fn |-> "callOllama", reply |-> reply,
                       out |-> callOllama(reply)]>>
    /\ TestFrame

Next ==
    \/ Start
    \/ ListModels
    \/ Verify
    \/ CheckModel
    \/ Stage
    \/ Scan
    \/ Generate
    \/ Commit
    \/ Push
    \/ LibScan
    \/ LibGenerate
    \/ ClientTimeout
    \/ TestParseChangeType
    \/ TestCountDiffLines
    \/ TestParseCommitSuggestion
    \/ TestBuildChangeContext
    \/ TestBuildPrompt
    \/ TestCallOllama

Spec == Init /\ [][Next]_vars

(***************************************************************************)
(* Properties.                                                             *)
(***************************************************************************)

\* The run is one of ai-git-auto.
IsMain == pc \notin {"lib", "lib:Inferring", "test"}

\* The operation was executed.
Did(name) == \E i \in 1..Len(ops) : ops[i].op = name

\* The approval prompt for this action was issued.
Prompted(action) ==
    \E i \in 1..Len(ops) : ops[i] = Op("askForApproval", action)

\* The answer given to the approval prompt for this action.
AnswerTo(action) ==
    asked[CHOOSE i \in 1..Len(asked) : asked[i].action = action].answer

CommitAction == "commit with this message"
PushAction == "push to remote"

\* The operations that change the repository or the remote.
Mutating == {"runGitAdd", "runGitCommit", "runGitPush"}

\* C1: prompts built from the same ChangeSet under the same configuration
\* are byte-identical.
C1_PromptDeterministic ==
    \A i, j \in 1..Len(prompts) :
        prompts[i].changes = prompts[j].changes
            => prompts[i].text = prompts[j].text

\* C2: in a run with -dry-run, whatever the other flags and the answers,
\* git add, git commit and git push are never executed, and nothing is
\* committed or pushed.
C2_DryRunNeverMutates ==
    flags.dryRun =>
        /\ \A i \in 1..Len(ops) : ops[i].op \notin Mutating
        /\ commits = <<>>
        /\ pushes = 0

\* A dry run that went through every step, both prompts answered.
C2_Witness ==
    /\ flags.dryRun
    /\ pc = "Done"
    /\ Did("getCurrentBranch")
    /\ Len(asked) = 2

\* C3: git push is executed only after a git commit of the same run that
\* succeeded; a failed commit aborts the run at once: no remote query, no
\* push prompt and no push follow it.
C3_PushOnlyAfterCommit ==
    /\ \A j \in 1..Len(ops) :
         ops[j].op = "runGitPush" =>
             /\ \E i \in 1..(j - 1) : ops[i].op = "runGitCommit"
             /\ Len(commits) = 1
    /\ (Did("runGitCommit") /\ commits = <<>>) =>
         /\ pc = "Aborted"
         /\ exit = <<1>>
         /\ ops[Len(ops)].op = "runGitCommit"
         /\ ~Did("getConfiguredRemotes")
         /\ ~Prompted(PushAction)
         /\ ~Did("runGitPush")

\* A push was executed, after a commit that succeeded.
C3_Witness == Did("runGitPush") /\ pushes = 1 /\ Len(commits) = 1

\* The user declined the commit-approval prompt.
CommitDeclined ==
    /\ \E i \in 1..Len(asked) : asked[i].action = CommitAction
    /\ ~askForApproval(AnswerTo(CommitAction))

\* C4: once the user has declined the commit prompt, whatever the flags
\* (dry-run included), nothing is committed and the run has ended with
\* status 0 without entering the push step.
C4_DeclineEndsRun ==
    CommitDeclined =>
        /\ ~Did("runGitCommit")
        /\ pc = "Done"
        /\ exit = <<0>>
        /\ ~Did("getConfiguredRemotes")
        /\ ~Prompted(PushAction)
        /\ ~Did("runGitPush")

\* Step 4 has been executed: the message was generated and main is past
\* the commit step.
CommitStepTaken ==
    /\ IsMain
    /\ Did("callOllama")
    /\ fatal # "Failed to generate commit message"
    /\ pc \notin {"Inferring", "Commit"}

\* Step 5 has reached its approval: a remote is configured.
PushApprovalReached == Did("getCurrentBranch")

\* The answers that approve: empty, "y" or "yes" once trimmed and lower-cased.
Approves(answer) ==
    ToLower(TrimSpace(answer)) \in {<<>>, <<"y">>, <<"y", "e", "s">>}

\* C5: an approval prompt is issued only in an interactive run without
\* -force; when the commit step (the push approval) is reached, the prompt
\* is issued exactly in such a run, the step is approved when no prompt is
\* issued, and otherwise approved exactly when the answer is empty, "y" or
\* "yes".
C5_ApprovalRule ==
    /\ Did("askForApproval") => flags.interactive /\ ~flags.force
    /\ CommitStepTaken =>
         IF flags.interactive /\ ~flags.force
         THEN Prompted(CommitAction)
              /\ commitApproved = Approves(AnswerTo(CommitAction))
         ELSE ~Prompted(CommitAction) /\ commitApproved
    /\ PushApprovalReached =>
         IF flags.interactive /\ ~flags.force
         THEN Prompted(PushAction)
              /\ pushApproved = Approves(AnswerTo(PushAction))
         ELSE ~Prompted(PushAction) /\ pushApproved

\* Both prompts were issued; the commit was approved by the empty answer
\* and the push declined.
C5_Witness ==
    /\ Prompted(CommitAction)
    /\ Prompted(PushAction)
    /\ AnswerTo(CommitAction) = <<"\n">>
    /\ commitApproved
    /\ ~pushApproved

\* The scan of ai-git-auto returned an empty ChangeSet.
EmptyScan ==
    /\ IsMain
    /\ Did("ScanStagedChanges")
    /\ fatal # "Failed to scan changes"
    /\ changes = <<>>

\* C6: when the scan returns an empty ChangeSet the run ends with status 0
\* and no prompt is built, no generate request sent, no approval asked and
\* nothing committed or pushed; and GenerateCommitMessage builds no prompt
\* and sends no request for an empty ChangeSet (every prompt was built from
\* a non-empty ChangeSet, every request carries a prompt that was built).
C6_EmptyChangeSetEndsRun ==
    /\ EmptyScan =>
         /\ pc = "Done"
         /\ exit = <<0>>
         /\ prompts = <<>>
         /\ requests = <<>>
         /\ \A i \in 1..Len(ops) :
              ops[i].op \notin {"buildPrompt", "callOllama", "askForApproval",
                                "runGitCommit", "runGitPush"}
    /\ \A i \in 1..Len(prompts) : prompts[i].changes # <<>>
    /\ \A i \in 1..Len(requests) :
         \E j \in 1..Len(prompts) : prompts[j].text = requests[i].Prompt

\* ai-git-auto found nothing staged after a successful "git add .".
C6_Witness == EmptyScan /\ Did("runGitAdd") /\ pc = "Done"

\* C7: a push that was executed and failed leaves the run completed with
\* status 0 and no fatal error, the commit made is still the one of the
\* suggestion, and the failed push is the last operation of the run.
C7_PushFailureNotFatal ==
    (Did("runGitPush") /\ pushes = 0) =>
        /\ pc = "Done"
        /\ exit = <<0>>
        /\ fatal = ""
        /\ commits = <<[Subject |-> suggestion.Subject,
                        Body |-> suggestion.Body,
                        entries |-> commits[1].entries]>>
        /\ ops[Len(ops)].op = "runGitPush"

\* A push was executed and failed.
C7_Witness == Did("runGitPush") /\ pushes = 0

\* C8: when the push is not skipped by flag and the remote query reports no
\* remote, no push prompt is issued, no push is executed and the run
\* completes with status 0.
C8_NoRemoteSkipsPush ==
    (Did("getConfiguredRemotes") /\ remotes = <<>>) =>
        /\ ~Prompted(PushAction)
        /\ ~Did("runGitPush")
        /\ pushes = 0
        /\ pc = "Done"
        /\ exit = <<0>>
        /\ fatal = ""

\* The commit was made and the remote query reported no remote.
C8_Witness ==
    Did("getConfiguredRemotes") /\ remotes = <<>> /\ Len(commits) = 1

\* The fatal messages of the Verifying step.
VerifyMessages ==
    {"not in a Git repository",
     "Ollama is not running or not accessible at " \o DefaultEndpoint,
     "Failed to connect to Ollama"}

\* Verifying fails or has failed in this run: the directory is no
\* repository, the configured backend does not answer, or one of the fatal
\* errors of the step was raised.
VerifyFails ==
    /\ IsMain
    /\ ~flags.showVersion
    /\ ~flags.listModels
    /\ (~isRepo \/ flags.endpoint \notin serving \/ fatal \in VerifyMessages)

\* C9: when Verifying fails the run never gets past it and ends Aborted
\* with a non-zero status; the failed check is the last operation (no
\* retry), and no stage-all, scan, generate, commit or push is executed.
C9_VerifyFailureAborts ==
    VerifyFails =>
        /\ pc \in {"main", "Verify", "Connect", "Aborted"}
        /\ pc = "Aborted" => exit = <<1>> /\ fatal \in VerifyMessages
        /\ \A i \in 1..Len(ops) :
             /\ ops[i].op \in {"isGitRepository", "ListAvailableModels"}
             /\ (ops[i].op = "isGitRepository" /\ ~isRepo) => i = Len(ops)
             /\ (ops[i].op = "ListAvailableModels" /\ ops[i].arg \notin serving)
                    => i = Len(ops)

\* The run was aborted because the directory is no repository.
C9_Witness == pc = "Aborted" /\ fatal = "not in a Git repository"

\* C10: in a repository, when the configured endpoint answers list-models,
\* Verifying does not fail: the run is never aborted with one of the fatal
\* errors of that step.
C10_VerifiesConfiguredEndpoint ==
    (IsMain /\ isRepo /\ flags.endpoint \in serving) =>
        fatal \notin VerifyMessages

\* C11: the inference call of ai-git-auto is bounded by the client's
\* timeout: a run that waits for a backend that never replies gets a
\* failure when the timeout passes, so it leaves the inference.
C11_InferenceBounded == (pc = "Inferring") => ENABLED ClientTimeout

\* The text is a decimal number.
IsNumber(s) == s # <<>> /\ \A i \in 1..Len(s) : IsDigit(s[i])

\* The model is in the list.
InList(model, list) == \E i \in 1..Len(list) : list[i] = model

\* The model a selection stands for: the k-th of the list for a number k in
\* 1..n, the first of the list for every other input.
SelectionOf(list, input) ==
    LET text == TrimSpace(input)
    IN  IF IsNumber(text) /\ ScanDigits(text, 0) \in 1..Len(list)
        THEN list[ScanDigits(text, 0)]
        ELSE list[1]

\* C12: the model check of pre-flight, when the backend lists at least one
\* model: a configured model that is in the list is kept and no selection
\* prompt is issued; otherwise the prompt is issued once and pre-flight goes
\* on with the model the answer stands for (the k-th for a number k in 1..n,
\* the first for any other input), a member of the list.
C12_ModelSelection ==
    [][(pc = "Connect" /\ availableModels' # <<>>) =>
         /\ pc' = "Stage"
         /\ config'.Model = flags'.model
         /\ InList(flags'.model, availableModels')
         /\ IF InList(flags.model, availableModels')
            THEN /\ asked' = asked
                 /\ flags'.model = flags.model
            ELSE /\ Len(asked') = Len(asked) + 1
                 /\ flags'.model = SelectionOf(availableModels',
                                               asked'[Len(asked')].answer)]_vars

\* C13: a run of ai-git-auto with -force never reads standard input: no
\* model-selection prompt and no approval prompt is issued.
C13_ForceNeverReadsStdin ==
    (IsMain /\ flags.force) =>
        /\ asked = <<>>
        /\ ~Did("promptUserForModel")
        /\ ~Did("askForApproval")

\* The user declined the push-approval prompt.
PushDeclined ==
    /\ \E i \in 1..Len(asked) : asked[i].action = PushAction
    /\ ~askForApproval(AnswerTo(PushAction))

\* C14: ai-git-auto ends with status 1 exactly when a fatal error aborted
\* the run, and with status 0 exactly when main returned; it has ended
\* with status 0 after a full completion, after the nothing-staged exit,
\* after a failed push, and whenever it ends after a declined approval.
C14_ExitStatus ==
    IsMain =>
        /\ exit \in {<<>>, <<0>>, <<1>>}
        /\ (exit = <<1>>) <=> (pc = "Aborted")
        /\ (exit = <<1>>) <=> (fatal # "")
        /\ (exit = <<0>>) <=> (pc = "Done")
        /\ pushes = 1 => exit = <<0>>
        /\ EmptyScan => exit = <<0>>
        /\ (Did("runGitPush") /\ pushes = 0) => exit = <<0>>
        /\ (CommitDeclined /\ ~flags.dryRun) => exit = <<0>>
        /\ PushDeclined => exit = <<0>>
        /\ (CommitDeclined /\ exit # <<>>) => exit = <<0>>

\* A run aborted by a failed commit has ended with status 1.
C14_Witness == pc = "Aborted" /\ fatal = "Failed to commit" /\ exit = <<1>>

\* The operations of the workflow, in the order of its states: stage-all,
\* scan, generate (the prompt, then the request), commit, push.
WorkflowOps ==
    <<"runGitAdd", "ScanStagedChanges", "buildPrompt", "callOllama",
      "runGitCommit", "runGitPush">>

\* Where in the run the operation was executed.
Positions(name) == {i \in 1..Len(ops) : ops[i].op = name}

\* C15: in a run of ai-git-auto stage-all, scan, generate, commit and push
\* are each executed at most once, any two of them in that order; once the
\* run is Done or Aborted the process has ended and takes no further step.
C15_OperationOrder ==
    IsMain =>
        /\ \A k \in 1..Len(WorkflowOps) :
             Cardinality(Positions(WorkflowOps[k])) <= 1
        /\ \A k, l \in 1..Len(WorkflowOps) :
             k < l => \A i \in Positions(WorkflowOps[k]),
                         j \in Positions(WorkflowOps[l]) : i < j
        /\ pc \in {"Done", "Aborted"} => exit # <<>> /\ ~ENABLED Next

\* A run that executed all five, from stage-all to a successful push.
C15_Witness ==
    /\ \A k \in 1..Len(WorkflowOps) : Positions(WorkflowOps[k]) # {}
    /\ pushes = 1
    /\ pc = "Done"

\* The last direct call was one of this function.
LastCall(fn) == results # <<>> /\ results[1].fn = fn

\* The fixed mapping from the first character of a status code to a kind.
KindTable ==
    [A |-> "added", M |-> "modified", D |-> "deleted", R |-> "renamed",
     C |-> "copied"]
KindOf(code) ==
    IF code[1] \in DOMAIN KindTable THEN KindTable[code[1]] ELSE "modified"

\* C16: parseChangeType returns the kind the fixed mapping gives to the
\* first character of the status code (A added, M modified, D deleted,
\* R renamed, C copied, anything else modified), whatever follows it; and
\* every FileChange of a scan has the kind of its entry's status code (its
\* entry is the staged entry whose path begins with the path recorded).
C16_ChangeKindMapping ==
    /\ LastCall("parseChangeType") =>
         results[1].out = KindOf(results[1].status)
    /\ LastCall("ScanStagedChanges") =>
         \A i \in 1..Len(results[1].out.changes) :
            \E j \in 1..Len(results[1].index) :
               /\ HasPrefix(results[1].index[j].path,
                            results[1].out.changes[i].FilePath)
               /\ results[1].out.changes[i].ChangeType
                    = KindOf(results[1].index[j].code)

\* parseChangeType was called with the status code of a copy, C75.
C16_Witness ==
    /\ LastCall("parseChangeType")
    /\ results[1].status = <<"C", "7", "5">>
    /\ results[1].out = "copied"

\* The lines of a diff that count as added and as removed.
AddedLines(lines) ==
    {i \in 1..Len(lines) : /\ HasPrefix(lines[i], <<"+">>)
                           /\ ~HasPrefix(lines[i], <<"+", "+", "+">>)}
RemovedLines(lines) ==
    {i \in 1..Len(lines) : /\ HasPrefix(lines[i], <<"-">>)
                           /\ ~HasPrefix(lines[i], <<"-", "-", "-">>)}

\* The counts agree with a count of the lines of this diff.
CountsOf(diff, added, removed) ==
    LET lines == SplitLines(diff)
    IN  /\ added = Cardinality(AddedLines(lines))
        /\ removed = Cardinality(RemovedLines(lines))
        /\ AddedLines(lines) \cap RemovedLines(lines) = {}
        /\ added + removed <= Len(lines)

\* C17: countDiffLines returns the number of lines that begin with "+" but
\* not "+++" and the number that begin with "-" but not "---", no line
\* counted twice; and every FileChange a scan returns carries the counts of
\* a fresh recount of its own Diff.
C17_DiffLineCounts ==
    /\ LastCall("countDiffLines") =>
         CountsOf(results[1].diff, results[1].out.added, results[1].out.removed)
    /\ LastCall("ScanStagedChanges") =>
         \A i \in 1..Len(results[1].out.changes) :
            LET c == results[1].out.changes[i]
            IN  /\ CountsOf(c.Diff, c.LinesAdded, c.LinesRemoved)
                /\ countDiffLines(c.Diff)
                     = [added |-> c.LinesAdded, removed |-> c.LinesRemoved]
    /\ \A i \in 1..Len(changes) :
         CountsOf(changes[i].Diff, changes[i].LinesAdded, changes[i].LinesRemoved)

\* countDiffLines was called with a diff that has the two header lines, one
\* removed and two added lines.
C17_Witness ==
    /\ LastCall("countDiffLines")
    /\ results[1].diff = DiffA
    /\ results[1].out = [added |-> 2, removed |-> 1]

\* The path the scan asks the diff of a staged entry for: the path of the
\* entry, up to its first whitespace if it holds any.
AskedPath(entry) == Fields(entry.path)[1]

\* The entries of a scan whose diff sub-query succeeded, in status order.
Succeeded(call) ==
    LET Kept(entry) == AskedPath(entry) \notin call.failing
    IN  SelectSeq(call.index, Kept)

\* C18: when the repository and status queries of a scan succeed, the scan
\* returns no error and its ChangeSet is, entry by entry and in status
\* order, the staged entries whose diff sub-query succeeded, whichever
\* sub-queries failed.
C18_ScanToleratesDiffFailures ==
    (LastCall("ScanStagedChanges") /\ isRepo /\ ~results[1].statusFails) =>
        LET call == results[1]
            kept == Succeeded(call)
        IN  /\ ~call.out.err
            /\ Len(call.out.changes) = Len(kept)
            /\ \A i \in 1..Len(kept) :
                 /\ call.out.changes[i].FilePath = AskedPath(kept[i])
                 /\ AskedPath(kept[i]) = kept[i].path =>
                      call.out.changes[i].Diff = kept[i].diff

\* A scan of two staged entries in which the diff of the first failed and
\* the second was returned.
C18_Witness ==
    /\ LastCall("ScanStagedChanges")
    /\ Len(results[1].index) = 2
    /\ results[1].failing = {results[1].index[1].path}
    /\ ~results[1].out.err
    /\ Len(results[1].out.changes) = 1
    /\ results[1].out.changes[1].FilePath = results[1].index[2].path

\* The lines without the blank lines at their beginning.
RECURSIVE WithoutLeadingBlank(_)
WithoutLeadingBlank(lines) ==
    IF lines = <<>> THEN <<>>
    ELSE IF TrimSpace(Head(lines)) = <<>> THEN WithoutLeadingBlank(Tail(lines))
    ELSE lines

\* C19: for every raw text parseCommitSuggestion returns a CommitSuggestion
\* (it has no error result) whose subject is the first line, trimmed, and
\* whose body is the remaining lines without their leading blank lines,
\* rejoined with line breaks and trimmed; the empty text gives an empty
\* subject and an empty body.
C19_SubjectAndBody ==
    LastCall("parseCommitSuggestion") =>
        LET lines == SplitLines(results[1].response)
            out == results[1].out
        IN  /\ DOMAIN out = {"Subject", "Body", "Confidence", "FilesAffected"}
            /\ out.Subject = TrimSpace(lines[1])
            /\ out.Body = TrimSpace(JoinLines(WithoutLeadingBlank(Tail(lines))))
            /\ results[1].response = <<>> =>
                 out.Subject = <<>> /\ out.Body = <<>>

\* A text with spaces around its subject, blank lines before its body and a
\* blank line inside it.
C19_Witness ==
    /\ LastCall("parseCommitSuggestion")
    /\ results[1].response =
         <<" ", "f", "i", "x", " ", "\n", "\n", " ", "\n", "w", "h", "y", " ",
           "\n", "\n", "h", "o", "w", "\n", " ">>
    /\ results[1].out.Subject = <<"f", "i", "x">>
    /\ results[1].out.Body = <<"w", "h", "y", " ", "\n", "\n", "h", "o", "w">>

\* The paths of a ChangeSet, in its order.
PathsOf(chs) == [i \in 1..Len(chs) |-> chs[i].FilePath]

\* C20: the CommitSuggestion of parseCommitSuggestion lists the paths of
\* the ChangeSet in ChangeSet order, one per entry, and has confidence 0.8
\* (8 tenths), whatever the raw text; so has the suggestion ai-git-auto
\* generates from its scan.
C20_FilesAndConfidence ==
    /\ LastCall("parseCommitSuggestion") =>
         /\ Len(results[1].out.FilesAffected) = Len(results[1].changes)
         /\ results[1].out.FilesAffected = PathsOf(results[1].changes)
         /\ results[1].out.Confidence = 8
    /\ (IsMain /\ suggestion # NoSuggestion) =>
         /\ suggestion.FilesAffected = PathsOf(changes)
         /\ suggestion.Confidence = 8

\* A ChangeSet of three entries, two of them with the same path.
C20_Witness ==
    /\ LastCall("parseCommitSuggestion")
    /\ Len(results[1].changes) = 3
    /\ results[1].changes[1].FilePath = results[1].changes[3].FilePath
    /\ Len(results[1].out.FilesAffected) = 3
    /\ results[1].response # <<>>

\* The lines of a text that hold a character other than whitespace.
NonBlankLines(text) ==
    SelectSeq(SplitLines(text), LAMBDA l : TrimSpace(l) # <<>>)

\* A call of GenerateCommitMessage whose request the backend answered.
Answered(call) == call.reply.kind = "ok" /\ Len(call.changes) > 0

\* C21: for every response text of the backend, the subject of the
\* suggestion GenerateCommitMessage returns is a single line, the first line
\* of the model output that is not blank (non-empty once trimmed), trimmed;
\* it is empty only if the output holds no character other than whitespace.
C21_SubjectIsFirstLine ==
    LastCall("GenerateCommitMessage") /\ Answered(results[1]) =>
        LET call == results[1]
            subject == call.out.suggestion.Subject
            lines == NonBlankLines(call.reply.response)
        IN  /\ ~call.out.err
            /\ \A i \in 1..Len(subject) : subject[i] # "\n"
            /\ lines # <<>> => subject = TrimSpace(lines[1])
            /\ subject = <<>> <=>
                 \A i \in 1..Len(call.reply.response) :
                     IsSpace(call.reply.response[i])

\* C21 witness: the output begins with blank lines and the subject is the
\* trimmed line after them.
C21_Witness ==
    /\ LastCall("GenerateCommitMessage") /\ Answered(results[1])
    /\ TrimSpace(SplitLines(results[1].reply.response)[1]) = <<>>
    /\ results[1].out.suggestion.Subject = <<"a", "d", "d", " ", "x">>

\* Whether a byte continues a UTF-8 character that began before it, for the
\* bytes that occur.
IsContinuation(b) == b = "\\xa9"

\* The number of characters of a UTF-8 text.
RuneCount(text) ==
    Cardinality({i \in 1..Len(text) : ~IsContinuation(text[i])})

\* The first n characters of a UTF-8 text of more than n characters.
FirstChars(text, n) ==
    LET starts == {k \in 1..Len(text) : ~IsContinuation(text[k])}
        next == CHOOSE k \in starts :
                    Cardinality({j \in starts : j < k}) = n
    IN  SubSeq(text, 1, next - 1)

\* The marker buildPrompt puts after a diff it has cut.
TruncationMarker == "\n... (truncated - showing first 2000 characters)"

\* A diff as the prompt has to embed it: cut after DiffCap characters.
CutByCharacters(diff) ==
    IF RuneCount(diff) > DiffCap
    THEN Str(FirstChars(diff, DiffCap)) \o TruncationMarker
    ELSE Str(diff)

\* C22: buildPrompt embeds a diff of more than 2000 characters as its first
\* 2000 characters followed by the truncation marker, and a diff of at most
\* 2000 characters (2000 included) as it is, with no marker.
C22_DiffTruncation ==
    LastCall("buildPrompt") =>
        \A i \in 1..Len(results[1].changes) :
            LET diff == results[1].changes[i].Diff
            IN  i <= FileCap /\ diff # <<>> =>
                    Contains(results[1].out,
                             "DIFF CONTENT:\n" \o CutByCharacters(diff) \o "\n==")

\* How often a text occurs in a text.
Occurrences(s, sub) ==
    Cardinality({i \in 1..(Len(s) - Len(sub) + 1) :
                    SubSeq(s, i, i + Len(sub) - 1) = sub})

\* The detail a prompt gives of a file: its entry with the change kind, its
\* line counts and its section with the diff or the note that there is none.
Detailed(prompt, change) ==
    /\ Contains(prompt, Str(change.FilePath) \o " (" \o change.ChangeType)
    /\ Contains(prompt, "   Lines changed: +" \o ToString(change.LinesAdded)
                        \o " -" \o ToString(change.LinesRemoved) \o "\n")
    /\ Contains(prompt, Str(change.FilePath) \o " ===\n")

\* The line that stands for the files beyond the cap.
MoreFilesLine(n) == "... and " \o ToString(n - FileCap) \o " more files\n"

\* C23: of a ChangeSet of n files the prompt details (change kind, line
\* counts, file type, diff) only the first min(n, 5); for n > 5 the other
\* n - 5 files are represented by the one line "... and n-5 more files" and
\* by nothing else, and for n <= 5 there is no such line.
C23_FileCap ==
    LastCall("buildPrompt") =>
        LET chs == results[1].changes
            prompt == results[1].out
            n == Len(chs)
        IN  /\ \A i \in 1..n : i <= FileCap => Detailed(prompt, chs[i])
            /\ \A i \in 1..n : i > FileCap => ~Contains(prompt, Str(chs[i].FilePath))
            /\ n > FileCap => Occurrences(prompt, MoreFilesLine(n)) = 1
            /\ n <= FileCap => ~Contains(prompt, "more files")

\* The sums of the line counts of a ChangeSet.
TotalAdded(chs) ==
    LET sum[i \in 0..Len(chs)] ==
            IF i = 0 THEN 0 ELSE sum[i - 1] + chs[i].LinesAdded
    IN  sum[Len(chs)]
TotalRemoved(chs) ==
    LET sum[i \in 0..Len(chs)] ==
            IF i = 0 THEN 0 ELSE sum[i - 1] + chs[i].LinesRemoved
    IN  sum[Len(chs)]

\* The number of files of a kind.
FilesOfKind(chs, kind) ==
    Cardinality({i \in 1..Len(chs) : chs[i].ChangeType = kind})

\* "<count> <kind>" for the kinds of a list, separated by ", ".
CountsLine(chs, kinds) ==
    LET entry(i) == ToString(FilesOfKind(chs, kinds[i])) \o " " \o kinds[i]
        upTo[i \in 0..Len(kinds)] ==
            IF i = 0 THEN ""
            ELSE upTo[i - 1] \o (IF i > 1 THEN ", " ELSE "") \o entry(i)
    IN  upTo[Len(kinds)]

\* The sum of the counts of a list of kinds.
CountsSum(chs, kinds) ==
    Cardinality({p \in (1..Len(kinds)) \X (1..Len(chs)) :
                    chs[p[2]].ChangeType = kinds[p[1]]})

\* A call that builds the summary of a ChangeSet that is not empty.
BuildsSummary ==
    /\ results # <<>>
    /\ results[1].fn \in {"buildChangeContext", "buildPrompt"}
    /\ Len(results[1].changes) > 0

\* C24: the summary of a non-empty ChangeSet gives the number of entries as
\* the total file count, the sums of linesAdded and linesRemoved as the
\* '+A -R' totals, and one count for each change kind present, the counts
\* adding up to the total file count; every path and its own line counts
\* are in the built prompt.
C24_SummaryTotals ==
    BuildsSummary =>
        LET chs == results[1].changes
            out == results[1].out
            present == {chs[i].ChangeType : i \in 1..Len(chs)}
        IN  /\ Contains(out, "Total Files Changed: " \o ToString(Len(chs)) \o "\n")
            /\ Contains(out, "Total Lines: +" \o ToString(TotalAdded(chs))
                             \o " -" \o ToString(TotalRemoved(chs)) \o "\n")
            /\ \E kinds \in [1..Cardinality(present) -> present] :
                 /\ {kinds[i] : i \in 1..Len(kinds)} = present
                 /\ Contains(out, "Change Types: " \o CountsLine(chs, kinds) \o "\n\n")
                 /\ CountsSum(chs, kinds) = Len(chs)
            /\ \A i \in 1..Len(chs) :
                 Contains(out, ToString(i) \o ". " \o Str(chs[i].FilePath) \o " ("
                               \o chs[i].ChangeType)
                 /\ Occurrences(out, "):\n   Lines changed: +"
                                     \o ToString(chs[i].LinesAdded) \o " -"
                                     \o ToString(chs[i].LinesRemoved) \o "\n") >=
                      Cardinality({j \in 1..Len(chs) :
                                     /\ chs[j].LinesAdded = chs[i].LinesAdded
                                     /\ chs[j].LinesRemoved = chs[i].LinesRemoved})

\* C24 witness: the prompt for files of +5 -2 and +10 -0 gives +15 -2.
C24_Witness ==
    /\ LastCall("buildPrompt")
    /\ results[1].changes = TestChanges
    /\ Contains(results[1].out, "Total Files Changed: 2\nTotal Lines: +15 -2\n")
    /\ Contains(results[1].out, "1. file1.go (modified.go):\n   Lines changed: +5 -2\n")
    /\ Contains(results[1].out, "2. file2.txt (added.txt):\n   Lines changed: +10 -0\n")

\* What makes a generate request fail: the endpoint cannot be reached, the
\* status is not 200, the body is not the expected JSON.
FailureKinds == {"unreachable", "status", "undecodable"}

\* Whether text is what is left of raw without the whitespace around it.
IsTrimOf(text, raw) ==
    /\ text # <<>> => ~IsSpace(text[1]) /\ ~IsSpace(text[Len(text)])
    /\ \E i \in 1..(Len(raw) + 1) :
         /\ i + Len(text) - 1 <= Len(raw)
         /\ SubSeq(raw, i, i + Len(text) - 1) = text
         /\ \A j \in 1..Len(raw) :
              (j < i \/ j > i + Len(text) - 1) => IsSpace(raw[j])

\* C25: callOllama sends one request per call; it returns an error and no
\* text when the endpoint is unreachable, the status is not success or the
\* body cannot be decoded, and the trimmed response field on success.  In
\* ai-git-auto a failed generate ends the run with "Failed to generate
\* commit message": the request is not sent again, to no other model, and
\* nothing is committed or pushed.
C25_GenerateFailure ==
    /\ LastCall("callOllama") =>
         LET call == results[1]
         IN  /\ call.reply.kind \in FailureKinds =>
                  call.out.err /\ call.out.text = <<>>
             /\ call.reply.kind = "ok" =>
                  ~call.out.err /\ IsTrimOf(call.out.text, call.reply.response)
    /\ LastCall("GenerateCommitMessage") /\ Len(results[1].changes) > 0 =>
         /\ Len(results[1].out.requests) = 1
         /\ results[1].reply.kind \in FailureKinds =>
              results[1].out.err /\ results[1].out.suggestion = NoSuggestion
         /\ results[1].reply.kind = "ok" => ~results[1].out.err
    /\ IsMain /\ LastCall("GenerateCommitMessage") =>
         /\ Cardinality(Positions("callOllama")) = 1
         /\ Len(requests) = 1
         /\ requests[1].Model = config.Model
         /\ results[1].reply.kind \in FailureKinds =>
              /\ pc = "Aborted"
              /\ exit = <<1>>
              /\ fatal = "Failed to generate commit message"
         /\ results[1].reply.kind # "ok" =>
              /\ ~Did("askForApproval")
              /\ ~Did("runGitCommit") /\ commits = <<>>
              /\ ~Did("runGitPush") /\ pushes = 0
    /\ IsMain /\ (Did("runGitCommit") \/ Did("runGitPush")) =>
         LastCall("GenerateCommitMessage") /\ results[1].reply.kind = "ok"

\* C25 witness: ai-git-auto has stopped on a reply that does not decode.
C25_Witness ==
    /\ IsMain
    /\ LastCall("GenerateCommitMessage")
    /\ results[1].reply.kind = "undecodable"
    /\ pc = "Aborted"
    /\ Cardinality(Positions("callOllama")) = 1

\* The scan of a run of ai-git-auto is its last library call so far.
Scanned == IsMain /\ LastCall("ScanStagedChanges")

\* C26: with -skip-add neither the listing of unstaged files nor "git add ."
\* runs and the scan sees the index as the run found it, the unstaged
\* files left where they were; with -skip-push the remotes are not queried,
\* the push is neither asked for nor run.  The other steps do not look at
\* the two flags: the scan follows step 1, the commit step asks and commits
\* by the rule of the approval, and a run that ends after its commit step
\* ends with status 0.
C26_SkipFlags ==
    IsMain =>
        /\ flags.skipAdd =>
             /\ ~Did("getUnstagedFiles") /\ ~Did("runGitAdd")
             /\ Scanned => <<results[1].index, unstaged>> \in Repos
             /\ \A i \in 1..Len(commits) :
                  \E r \in Repos : commits[i].entries = r[1] /\ unstaged = r[2]
        /\ flags.skipPush =>
             /\ ~Did("getConfiguredRemotes") /\ ~Did("getCurrentBranch")
             /\ ~Prompted(PushAction) /\ ~Did("runGitPush")
             /\ \A i \in 1..Len(asked) : asked[i].action # PushAction
             /\ pushes = 0 /\ ~pushApproved /\ remotes = <<>>
        /\ pc \in {"Generate", "Inferring", "Commit", "Push"} =>
             Did("ScanStagedChanges")
        /\ CommitStepTaken =>
             /\ Prompted(CommitAction) <=> Asks(flags)
             /\ Did("runGitCommit") <=> (commitApproved /\ ~flags.dryRun)
        /\ (CommitStepTaken /\ flags.skipPush /\ pc = "Done") => exit = <<0>>

\* C26 witness: a run with both flags has committed the one staged file and
\* ended, the unstaged file still unstaged.
C26_Witness ==
    /\ IsMain /\ flags.skipAdd /\ flags.skipPush
    /\ pc = "Done"
    /\ Len(commits) = 1 /\ commits[1].entries = <<EntryC>>
    /\ unstaged = <<EntryB>>

\* Pre-flight asked the user to select a model.
ModelPrompted == \E i \in 1..Len(asked) : asked[i].action = "select a model"

\* The model pre-flight reports ("Using AI model"): the one the selection
\* step returned if it ran, else the configured one.
ReportedModel ==
    IF ModelPrompted
    THEN LET input == AnswerTo("select a model")
         IN  promptUserForModel(availableModels, input, EndOfInput(input)).model
    ELSE flags.model

\* C27: the generate request of a run names the model pre-flight reported:
\* the configured model when the backend lists it, else the model the
\* selection returned.  The commenter was created before pre-flight and
\* reads the model from the configuration object main updates afterwards.
C27_RequestNamesReportedModel ==
    IsMain =>
        \A i \in 1..Len(requests) :
            /\ requests[i].Model = ReportedModel
            /\ requests[i].Model = config.Model
            /\ InList(requests[i].Model, availableModels)
            /\ ~ModelPrompted => flags.model \in ModelFlags

\* C27 witness: the configured model was not listed, the second model of
\* the list was selected and the request names it.
C27_Witness ==
    /\ IsMain /\ ModelPrompted
    /\ Len(requests) = 1
    /\ requests[1].Model = "mistral"

\* C28: ScanStagedChanges returns an empty ChangeSet only if the status
\* query reported no staged entry, so ai-git-auto ends with "No staged
\* changes found" only when nothing is staged, whatever becomes of the
\* diff queries for the single files.
C28_EmptyOnlyWhenNothingStaged ==
    /\ (LastCall("ScanStagedChanges") /\ ~results[1].out.err
        /\ results[1].out.changes = <<>>) => results[1].index = <<>>
    /\ (EmptyScan /\ pc = "Done") => Scanned /\ results[1].index = <<>>

\* C29: ai-git-auto never runs the commit with an empty subject: whenever
\* runGitCommit is reached the subject of the suggestion is not empty,
\* whatever the backend replied with status 200 and a body that decodes.
C29_NoCommitWithEmptySubject ==
    (IsMain /\ Did("runGitCommit")) => suggestion.Subject # <<>>

\* The paths of the staged entries, in status order.
StagedPaths(idx) == [i \in 1..Len(idx) |-> idx[i].path]

\* C30: for status lines made of a code and one path, the FileChange that
\* ScanStagedChanges records has the whole path of its line as FilePath,
\* also when the path holds whitespace, and the diff is asked for that
\* path: with no diff query failing, no line is dropped and none is given
\* another path.
C30_WholePathRecorded ==
    (LastCall("ScanStagedChanges") /\ ~results[1].out.err
     /\ results[1].failing = {}) =>
        /\ PathsOf(results[1].out.changes) = StagedPaths(results[1].index)
        /\ ScanPaths(results[1].index)
             = {results[1].index[i].path : i \in 1..Len(results[1].index)}

====
